---- MODULE Spec2Model ----
(***************************************************************************)
(* Model of molplotly/main.py: add_molecules (setup: selection widget,     *)
(* image cache build, curve_dict construction, callback registration) and  *)
(* the display_hover callback (row resolution and tooltip assembly).       *)
(*                                                                         *)
(* Python strings whose characters matter (series names, titles) are       *)
(* sequences of one-character strings.  Python values of varying type are  *)
(* tagged records [t |-> <type>, v |-> <value>].                           *)
(***************************************************************************)
EXTENDS Integers, Sequences, FiniteSets, TLC

VARIABLES df, fig, opt, pc, err, df_data, curve_dict, colors, app,
          hoverData, value, out

vars == <<df, fig, opt, pc, err, df_data, curve_dict, colors, app,
          hoverData, value, out>>

\* Largest number of rows of a dataset.
MaxRows == 3

-----------------------------------------------------------------------------
(* Python values *)

None == "None"

NoneV == [t |-> "none", v |-> 0]
StrV(s) == [t |-> "str", v |-> s]
ListV(l) == [t |-> "list", v |-> l]
no_update == [t |-> "no_update", v |-> 0]

IsNone(x) == x.t = "none"

Range(s) == {s[i] : i \in 1..Len(s)}

\* pandas elementwise ==: values of different types never compare equal.
Eq(a, b) == a.t = b.t /\ a.v = b.v

-----------------------------------------------------------------------------
(* Strings as character sequences *)

Digits == <<"0", "1", "2", "3", "4", "5", "6", "7", "8", "9">>

DigitVal(c) == (CHOOSE i \in 1..10 : Digits[i] = c) - 1

\* str.lower(), on the characters the series names use.
LowerChar(c) ==
    CASE c = "T" -> "t"
      [] c = "F" -> "f"
      [] c = "Y" -> "y"
      [] OTHER -> c

lower(v) == [i \in 1..Len(v) |-> LowerChar(v[i])]

\* def str2bool(v): return v.lower() in ("yes", "true", "t", "1")
str2bool(v) ==
    lower(v) \in {<<"y", "e", "s">>, <<"t", "r", "u", "e">>, <<"t">>, <<"1">>}

\* int(name) on a string of decimal digits.
RECURSIVE int(_)
int(s) ==
    IF s = <<>> THEN 0
    ELSE 10 * int(SubSeq(s, 1, Len(s) - 1)) + DigitVal(s[Len(s)])

\* str(n) for a natural number n.
RECURSIVE IntStr(_)
IntStr(n) ==
    IF n < 10 THEN <<Digits[n + 1]>>
    ELSE IntStr(n \div 10) \o <<Digits[(n % 10) + 1]>>

\* The label the charting layer gives a series: the group value, stringified.
\* A float is held in tenths (15 is 1.5).
SeriesName(g) ==
    CASE g.t = "bool" -> IF g.v THEN <<"T", "r", "u", "e">>
                         ELSE <<"F", "a", "l", "s", "e">>
      [] g.t = "int" -> IntStr(g.v)
      [] g.t = "float" -> IntStr(g.v \div 10) \o <<".">> \o IntStr(g.v % 10)
      [] OTHER -> g.v

-----------------------------------------------------------------------------
(* The dataset and the chart plotted from it *)

DTypes == {"bool", "int", "object", "float"}

\* The two values of a grouping column of each declared type.
GroupVal(ty, k) ==
    CASE ty = "bool" -> [t |-> "bool", v |-> (k = 1)]
      [] ty = "int" -> [t |-> "int", v |-> IF k = 1 THEN 7 ELSE 12]
      [] ty = "float" -> [t |-> "float", v |-> IF k = 1 THEN 15 ELSE 25]
      [] OTHER -> [t |-> "object", v |-> IF k = 1 THEN <<"a">> ELSE <<"b", "1">>]

Smiles == {"CCO", "c1ccccc1", "C1CC"}

\* Chem.MolFromSmiles: None for an encoding that does not parse
\* ("C1CC" has an unclosed ring).
MolFromSmiles(s) == IF s \in {"CCO", "c1ccccc1"} THEN StrV(s) ELSE NoneV

ShortTitle == <<"a", "b">>
LongTitle == <<"a", "b", " ", "c", "d", "e", "f", "g", "h">>

Row(idx, smi, smi2, grp, name, x, cap) ==
    [idx |-> idx, SMILES |-> smi, SMILES2 |-> smi2, grp |-> grp,
     name |-> name, x |-> x, y |-> x + 10, cap |-> cap]

\* The distinct group values of d, in order of first appearance.
RECURSIVE Groups(_)
Groups(d) ==
    IF d = <<>> THEN <<>>
    ELSE LET g == Groups(SubSeq(d, 1, Len(d) - 1))
             last == d[Len(d)].grp
         IN IF \E i \in 1..Len(g) : Eq(g[i], last) THEN g ELSE Append(g, last)

\* The positions of d's rows with group value g, in row order.
RECURSIVE GroupPositions(_, _, _)
GroupPositions(d, g, from) ==
    IF from > Len(d) THEN <<>>
    ELSE (IF Eq(d[from].grp, g) THEN <<from>> ELSE <<>>)
         \o GroupPositions(d, g, from + 1)

\* The figure a chart of d has: one series for all rows, or (discrete
\* colouring by the group column) one series per group value, each plotting
\* its rows in row order and labelled with the stringified group value.
Chart(d, grouped, xtitle) ==
    [data |->
        IF grouped
        THEN LET g == Groups(d)
             IN [s \in 1..Len(g) |->
                    [name |-> SeriesName(g[s]),
                     color |-> <<"marker", s - 1>>,
                     points |-> GroupPositions(d, g[s], 1)]]
        ELSE <<[name |-> <<>>, color |-> <<"marker", 0>>,
                points |-> [p \in 1..Len(d) |-> p]]>>,
     xcol |-> "x", ycol |-> "y",
     xtitle |-> xtitle, ytitle |-> "y"]

-----------------------------------------------------------------------------
(* add_molecules: setup *)

\* if isinstance(smiles_col, str): smiles_col = [smiles_col]
smiles_col == IF opt.smiles_col.t = "str" THEN <<opt.smiles_col.v>>
              ELSE opt.smiles_col.v

\* The "value" property of the smiles-menu component as first laid out: the
\* multi-select Dropdown starts at the first structure column; the Store is
\* built with data=0 and has no value, so the callback's Input reads None.
menu == IF Len(smiles_col) > 1 THEN StrV(smiles_col[1]) ELSE NoneV

NaN == [t |-> "nan", v |-> 0]

\* The drawing of a decoded molecule as an embeddable payload.
img_str(mol) == [t |-> "img", v |-> mol.v]

\* df_data = df[smiles_col].copy(); the _img columns do not exist yet.
CopyOfSmiles(d) ==
    [p \in 1..Len(d) |->
        [idx |-> d[p].idx, SMILES |-> d[p].SMILES, SMILES2 |-> d[p].SMILES2,
         img |-> [c \in Range(smiles_col) |-> NaN]]]

\* df_data.loc[i, f"{col}_img"] = img: every row labelled i is assigned.
LocSet(data, i, col, img) ==
    [q \in 1..Len(data) |->
        IF data[q].idx = i THEN [data[q] EXCEPT !.img[col] = img] ELSE data[q]]

\* for i, row in df_data.iterrows(): for col in smiles_col: ...
\* DrawMolecule(None) raises, which ends the loop and add_molecules.
RECURSIVE DrawAll(_, _, _)
DrawAll(data, p, k) ==
    IF p > Len(data) THEN [ok |-> TRUE, data |-> data]
    ELSE IF k > Len(smiles_col) THEN DrawAll(data, p + 1, 1)
    ELSE LET col == smiles_col[k]
             mol == MolFromSmiles(data[p][col])
         IN IF IsNone(mol) THEN [ok |-> FALSE, data |-> data]
            ELSE DrawAll(LocSet(data, data[p].idx, col, img_str(mol)), p, k + 1)

\* df[color_col].dtype
dtype == df[1][opt.color_col].t

\* curve_dict: the series' names coerced by the group column's dtype.
CurveDict ==
    [s \in 1..Len(fig.data) |->
        LET name == fig.data[s].name
        IN IF dtype = "bool" THEN [t |-> "bool", v |-> str2bool(name)]
           ELSE IF dtype = "int" THEN [t |-> "int", v |-> int(name)]
           ELSE [t |-> "object", v |-> name]]

Black == <<"black", 0>>

Colors ==
    IF Len(fig.data) # 1 THEN [s \in 1..Len(fig.data) |-> fig.data[s].color]
    ELSE <<Black>>

Setup ==
    /\ pc = "start"
    /\ LET cache == DrawAll(CopyOfSmiles(df), 1, 1)
       IN IF ~cache.ok
          THEN /\ pc' = "failed"
               /\ err' = "ArgumentError"
               /\ UNCHANGED <<df_data, curve_dict, colors, app, value>>
          ELSE IF Len(fig.data) # 1 /\ opt.color_col = None
          THEN /\ pc' = "failed"
               /\ err' = "ValueError"
               /\ UNCHANGED <<df_data, curve_dict, colors, app, value>>
          ELSE /\ pc' = "ready"
               /\ err' = None
               /\ df_data' = cache.data
               /\ curve_dict' = IF Len(fig.data) # 1 THEN CurveDict ELSE <<>>
               /\ colors' = Colors
               /\ app' = "registered"
               /\ value' = menu
    /\ UNCHANGED <<df, fig, opt, hoverData, out>>

-----------------------------------------------------------------------------
(* textwrap.fill(title, width): TextWrapper with its defaults *)

IsSpace(chunk) == chunk # <<>> /\ \A i \in 1..Len(chunk) : chunk[i] = " "

\* TextWrapper._split: the text as alternating runs of blanks and of
\* non-blanks.
RECURSIVE Split(_)
Split(text) ==
    IF text = <<>> THEN <<>>
    ELSE LET rest == Split(Tail(text))
             c == Head(text)
         IN IF rest # <<>> /\ ((Head(rest)[1] = " ") <=> (c = " "))
            THEN <<(<<c>> \o Head(rest))>> \o Tail(rest)
            ELSE <<(<<c>>)>> \o rest

\* The inner loop of TextWrapper._wrap_chunks: chunks are taken while they
\* fit in width.  The line is kept joined; lastc is the last chunk taken.
RECURSIVE Take(_, _, _, _)
Take(cs, line, lastc, width) ==
    IF cs # <<>> /\ Len(line) + Len(Head(cs)) <= width
    THEN Take(Tail(cs), line \o Head(cs), Head(cs), width)
    ELSE [line |-> line, cs |-> cs, lastc |-> lastc]

\* TextWrapper._wrap_chunks with drop_whitespace and break_long_words set.
RECURSIVE WrapChunks(_, _, _)
WrapChunks(chunks, lines, width) ==
    IF chunks = <<>> THEN lines
    ELSE
      LET c1 == IF IsSpace(Head(chunks)) /\ lines # <<>> THEN Tail(chunks)
                ELSE chunks
          t == Take(c1, <<>>, <<>>, width)
          \* _handle_long_word
          long == t.cs # <<>> /\ Len(Head(t.cs)) > width
          space_left == IF width < 1 THEN 1 ELSE width - Len(t.line)
          piece == IF long THEN SubSeq(Head(t.cs), 1, space_left) ELSE <<>>
          line2 == t.line \o piece
          cs2 == IF long
                 THEN <<SubSeq(Head(t.cs), space_left + 1, Len(Head(t.cs)))>>
                      \o Tail(t.cs)
                 ELSE t.cs
          lastc2 == IF long THEN piece ELSE t.lastc
          \* a trailing blank chunk is dropped from the line
          line3 == IF line2 # <<>> /\ IsSpace(lastc2)
                   THEN SubSeq(line2, 1, Len(line2) - Len(lastc2))
                   ELSE line2
          lines2 == IF line3 # <<>> THEN Append(lines, line3) ELSE lines
      IN IF c1 = <<>> THEN lines ELSE WrapChunks(cs2, lines2, width)

RECURSIVE JoinLines(_)
JoinLines(lines) ==
    IF lines = <<>> THEN <<>>
    ELSE IF Len(lines) = 1 THEN lines[1]
    ELSE lines[1] \o <<"\n">> \o JoinLines(Tail(lines))

fill(text, width) == JoinLines(WrapChunks(Split(text), <<>>, width))

-----------------------------------------------------------------------------
(* display_hover: the callback on the chart's hoverData and the menu's value *)

Returned(show, bbox, children, row) ==
    [status |-> "returned", error |-> None, show |-> show, bbox |-> bbox,
     children |-> children, df_row |-> row]

\* The callback ended in an exception: no output is returned.
Raised(e, row) ==
    [status |-> "raised", error |-> e, show |-> FALSE, bbox |-> no_update,
     children |-> no_update, df_row |-> row]

\* if isinstance(value, str): chosen_smiles = [value] else: chosen_smiles = value
chosen_smiles(v) == IF v.t = "str" THEN ListV(<<v.v>>) ELSE v

\* df[df[color_col] == curve_dict[curve_num]].reset_index(drop=True), as the
\* positions in df of its rows, in order.
RECURSIVE df_curve(_, _)
df_curve(curve_num, from) ==
    IF from > Len(df) THEN <<>>
    ELSE (IF Eq(df[from][opt.color_col], curve_dict[curve_num + 1])
          THEN <<from>> ELSE <<>>)
         \o df_curve(curve_num, from + 1)

\* ResolveRow with the single-series row looked up by label (df.loc[num])
\* instead of by position (df.iloc[num]).
ResolveRow_loc(curve_num, num) ==
    IF Len(fig.data) # 1
    THEN LET c == df_curve(curve_num, 1)
         IN IF num < Len(c) THEN c[num + 1] ELSE 0
    ELSE IF \E p \in 1..Len(df) : df[p].idx = num
         THEN CHOOSE p \in 1..Len(df) :
                  df[p].idx = num /\ \A r \in 1..(p - 1) : df[r].idx # num
         ELSE 0

\* df_row, as its position in df; 0 when iloc raises IndexError.
ResolveRow(curve_num, num) ==
    IF Len(fig.data) # 1
    THEN LET c == df_curve(curve_num, 1)
         IN IF num < Len(c) THEN c[num + 1] ELSE 0
    ELSE IF num < Len(df) THEN num + 1 ELSE 0

Block(tag, text, color) == [tag |-> tag, text |-> text, color |-> color]

\* df_data.query(f"{col} == @smiles")[f"{col}_img"].values[0]
ImgLookup(col, smiles) ==
    LET q == CHOOSE q \in 1..Len(df_data) :
                 /\ df_data[q][col] = smiles
                 /\ \A r \in 1..(q - 1) : df_data[r][col] # smiles
    IN df_data[q].img[col]

\* for col in smiles_col: if col in chosen_smiles: ... html.Img(src=img_str)
RECURSIVE ImgBlocks(_, _, _)
ImgBlocks(row, chosen, k) ==
    IF k > Len(smiles_col) THEN <<>>
    ELSE (IF smiles_col[k] \in Range(chosen)
          THEN <<Block("Img", ImgLookup(smiles_col[k], row[smiles_col[k]]), Black)>>
          ELSE <<>>)
         \o ImgBlocks(row, chosen, k + 1)

Ellipsis == <<".", ".", ".">>

\* The title, wrapped or cut when longer than wraplen.
TitleText(title) ==
    IF Len(title) > opt.wraplen
    THEN IF opt.wrap THEN fill(title, opt.wraplen)
         ELSE SubSeq(title, 1, opt.wraplen) \o Ellipsis
    ELSE title

TitleBlocks(row, curve_num) ==
    IF opt.title_col # None
    THEN <<Block("H2", TitleText(row[opt.title_col]), colors[curve_num + 1])>>
    ELSE <<>>

\* What a caption shows: the output of the transform registered under key,
\* or str() of the value.
Transformed(key, v) == [by |-> key, of |-> v]
Raw(v) == [by |-> "str", of |-> v]

Caption(label, sep, shown) ==
    Block("P", [label |-> label, sep |-> sep, shown |-> shown], Black)

\* x_label = fig.layout.xaxis.title.text; if x_label in caption_transform: ...
AxisBlocks(pt) ==
    IF opt.show_coords
    THEN LET x_label == fig.xtitle
             y_label == fig.ytitle
         IN <<IF x_label \in opt.caption_transform
              THEN Caption(x_label, " : ", Transformed(x_label, pt.x))
              ELSE Caption(x_label, ": ", Raw(pt.x)),
              IF y_label \in opt.caption_transform
              THEN Caption(y_label, " : ", Transformed(y_label, pt.y))
              ELSE Caption(y_label, " : ", Raw(pt.y))>>
    ELSE <<>>

\* for caption in caption_cols: caption_val = df_row[caption] ...
CaptionBlocks(row) ==
    IF opt.caption_cols.t # "none"
    THEN [k \in 1..Len(opt.caption_cols.v) |->
             LET caption == opt.caption_cols.v[k]
                 caption_val == row[caption]
             IN IF caption \in opt.caption_transform
                THEN Caption(caption, " : ", Transformed(caption, caption_val))
                ELSE Caption(caption, " : ", Raw(caption_val))]
    ELSE <<>>

display_hover(hd, v) ==
    IF IsNone(hd) THEN Returned(FALSE, no_update, no_update, 0)
    ELSE
      LET chosen == chosen_smiles(v)
          pt == hd.v
          num == pt.pointNumber
          curve_num == pt.curveNumber
          pos == ResolveRow(curve_num, num)
      IN IF pos = 0 THEN Raised("IndexError", 0)
         ELSE IF opt.show_img /\ IsNone(chosen)
         THEN Raised("TypeError", pos)   \* col in None
         ELSE LET df_row == df[pos]
                  hoverbox_elements ==
                      (IF opt.show_img THEN ImgBlocks(df_row, chosen.v, 1)
                       ELSE <<>>)
                      \o TitleBlocks(df_row, curve_num)
                      \o AxisBlocks(pt)
                      \o CaptionBlocks(df_row)
              IN Returned(TRUE, pt.bbox, ListV(hoverbox_elements), pos)

-----------------------------------------------------------------------------
(* Events *)

NoPoint == [t |-> "none", v |-> 0]

\* The hoverData of the point num of series curve_num; a point the series
\* does not (or no longer) plot carries no row's coordinates.
PointEvent(curve_num, num) ==
    LET points == fig.data[curve_num + 1].points
        plotted == num < Len(points)
    IN [t |-> "points",
        v |-> [curveNumber |-> curve_num, pointNumber |-> num,
               x |-> IF plotted THEN df[points[num + 1]][fig.xcol] ELSE 0,
               y |-> IF plotted THEN df[points[num + 1]][fig.ycol] ELSE 0,
               bbox |-> <<curve_num, num>>]]

\* The values the multi-select Dropdown reports: a list of options, or None.
Selections ==
    {NoneV} \cup
    {ListV(l) : l \in {<<>>} \cup {<<c>> : c \in Range(smiles_col)}
                      \cup {<<c, d>> : <<c, d>> \in
                              {cd \in Range(smiles_col) \X Range(smiles_col) :
                                  cd[1] # cd[2]}}}

\* The pointer comes to rest on a point.
Hover(curve_num, num) ==
    /\ pc = "ready" /\ app = "registered"
    /\ hoverData' = PointEvent(curve_num, num)
    /\ out' = display_hover(hoverData', value)
    /\ UNCHANGED <<df, fig, opt, pc, err, df_data, curve_dict, colors, app, value>>

\* The pointer leaves the points (clear_on_unhover).
Unhover ==
    /\ pc = "ready" /\ app = "registered"
    /\ hoverData' = NoPoint
    /\ out' = display_hover(hoverData', value)
    /\ UNCHANGED <<df, fig, opt, pc, err, df_data, curve_dict, colors, app, value>>

\* The user changes the selection of the Dropdown.
Select(v) ==
    /\ pc = "ready" /\ app = "registered"
    /\ Len(smiles_col) > 1
    /\ v # value
    /\ value' = v
    /\ out' = display_hover(hoverData, value')
    /\ UNCHANGED <<df, fig, opt, pc, err, df_data, curve_dict, colors, app,
                   hoverData>>

-----------------------------------------------------------------------------
(* The datasets, charts and options add_molecules is called with *)

SeqsUpTo(S, n) == UNION {[1..k -> S] : k \in 1..n}

\* The default index of a DataFrame: each row is labelled with its position.
RangeIndex(d) == [p \in 1..Len(d) |-> [d[p] EXCEPT !.idx = p - 1]]

Defaults ==
    [smiles_col |-> StrV("SMILES"), show_img |-> TRUE, title_col |-> None,
     show_coords |-> TRUE, caption_cols |-> NoneV, caption_transform |-> {},
     color_col |-> None, wrap |-> TRUE, wraplen |-> 4]

XTitles == {"x", "X title"}

\* Grouped and ungrouped charts of datasets with a group column of each dtype
\* and arbitrary row labels.
ResolveCalls ==
    {[df |-> d, fig |-> Chart(d, TRUE, "x"),
      opt |-> [Defaults EXCEPT !.show_img = FALSE, !.title_col = "name",
                               !.show_coords = FALSE, !.color_col = c]] :
        d \in UNION {{RangeIndex(e) :
                        e \in SeqsUpTo({Row(0, "CCO", "CCO", GroupVal(ty, k),
                                            ShortTitle, 1, 1) : k \in 1..2},
                                       MaxRows)} : ty \in DTypes},
        c \in {None, "grp"}}
    \cup
    {[df |-> d, fig |-> Chart(d, FALSE, "x"),
      opt |-> [Defaults EXCEPT !.show_img = FALSE, !.title_col = "name",
                               !.show_coords = FALSE, !.color_col = c]] :
        d \in SeqsUpTo({Row(i, "CCO", "CCO", GroupVal("object", k),
                            ShortTitle, 1, 1) : i \in 0..1, k \in 1..2},
                       MaxRows),
        c \in {None, "grp"}}

\* One or two structure columns, encodings that decode or not, repeated
\* encodings and repeated row labels.
ImageCalls ==
    {[df |-> d, fig |-> Chart(d, FALSE, "x"),
      opt |-> [Defaults EXCEPT !.smiles_col = sc, !.show_img = st[1],
                               !.title_col = st[2], !.show_coords = FALSE]] :
        d \in SeqsUpTo({Row(i, s, "c1ccccc1", GroupVal("object", 1),
                            IF i = 0 THEN ShortTitle ELSE LongTitle, 1, 1) :
                           i \in 0..1, s \in Smiles},
                       MaxRows),
        sc \in {StrV("SMILES"), ListV(<<"SMILES", "SMILES2">>)},
        st \in {<<TRUE, None>>, <<TRUE, "name">>, <<FALSE, "name">>}}

\* Axis captions, extra captions, value transforms and title wrapping.
CaptionCalls ==
    {[df |-> RangeIndex(d), fig |-> Chart(d, FALSE, xt),
      opt |-> [Defaults EXCEPT !.show_img = FALSE, !.title_col = tw[1],
                               !.wrap = tw[2], !.show_coords = sc,
                               !.caption_cols = cc,
                               !.caption_transform = ct]] :
        d \in SeqsUpTo({Row(0, "CCO", "CCO", GroupVal("object", 1),
                            ShortTitle, 1, 21),
                        Row(0, "CCO", "CCO", GroupVal("object", 1),
                            LongTitle, 2, 22)},
                       MaxRows),
        xt \in XTitles,
        tw \in {<<None, TRUE>>, <<"name", TRUE>>, <<"name", FALSE>>},
        sc \in BOOLEAN,
        cc \in {NoneV, ListV(<<"cap", "x">>)},
        ct \in (SUBSET {"x", "X title", "cap"}) \cup {{"y"}}}

Calls == ResolveCalls \cup ImageCalls \cup CaptionCalls

Idle == [status |-> "idle", error |-> None, show |-> FALSE,
         bbox |-> no_update, children |-> no_update, df_row |-> 0]

Init ==
    /\ \E call \in Calls : df = call.df /\ fig = call.fig /\ opt = call.opt
    /\ pc = "start"
    /\ err = None
    /\ df_data = <<>>
    /\ curve_dict = <<>>
    /\ colors = <<>>
    /\ app = None
    /\ hoverData = NoPoint
    /\ value = NoneV
    /\ out = Idle

Next ==
    \/ Setup
    \/ \E curve_num \in 0..(Len(fig.data) - 1), num \in 0..MaxRows :
          Hover(curve_num, num)
    \/ Unhover
    \/ \E v \in Selections : Select(v)

Spec == Init /\ [][Next]_vars

-----------------------------------------------------------------------------
(* Vocabulary of the properties *)

Ready == pc = "ready"

HoveredPoint == hoverData.t = "points"

SeriesPoints == fig.data[hoverData.v.curveNumber + 1].points

\* The hovered point is one the chart plots.
Plotted == HoveredPoint /\ hoverData.v.pointNumber < Len(SeriesPoints)

\* The position in df of the row the chart plots at the hovered point.
PlottedRow == SeriesPoints[hoverData.v.pointNumber + 1]

\* The number of rows of the subset the point index addresses.
SubsetLen ==
    IF Len(fig.data) # 1 THEN Len(df_curve(hoverData.v.curveNumber, 1))
    ELSE Len(df)

IsImg(b) == b.tag = "Img"
IsP(b) == b.tag = "P"
IsH2(b) == b.tag = "H2"
NotImg(b) == b.tag # "Img"

Shown == out.status = "returned" /\ out.show /\ out.children.t = "list"

Decodable(s) == ~IsNone(MolFromSmiles(s))

-----------------------------------------------------------------------------
(* Properties *)

\* C1: in a chart with exactly one series, a hover on point index num
\* resolves to the row at position num of the dataset, whatever the rows'
\* labels are.
C1_SingleSeriesResolvesByPosition ==
    (Ready /\ Len(fig.data) = 1 /\ HoveredPoint
       /\ hoverData.v.pointNumber < Len(df))
    => (/\ out.df_row = hoverData.v.pointNumber + 1
        /\ out.status # "idle")

\* C1 witness: a hover on point 1 of a single series whose second row is
\* labelled 0, resolved to that second row and shown.
C1_Witness ==
    /\ Ready /\ Len(fig.data) = 1 /\ HoveredPoint
    /\ hoverData.v.pointNumber = 1
    /\ Len(df) >= 2 /\ df[2].idx = 0 /\ df[1].idx = 1
    /\ out.status = "returned" /\ out.show
    /\ out.df_row = 2

\* C2: in a chart with several series, a hover on a plotted point (s, i)
\* resolves to a row, whose group value equals curve_dict[s] and which is the
\* i-th row of that group, for every dtype of the group column.
C2_GroupedResolvesWithinGroup ==
    (Ready /\ Len(fig.data) > 1 /\ Plotted)
    => (/\ out.df_row # 0
        /\ Eq(df[out.df_row].grp, curve_dict[hoverData.v.curveNumber + 1])
        /\ out.df_row = PlottedRow)

\* C3: with several series and no group column, setup fails with the
\* configuration error and the callback is never registered nor run; with
\* one series setup succeeds.
C3_ConfigurationError ==
    (pc # "start")
    => (/\ (Len(fig.data) > 1 /\ opt.color_col = None)
             => (pc = "failed" /\ err = "ValueError" /\ app = None /\ out = Idle)
        /\ (Len(fig.data) = 1) => (pc = "ready" /\ app = "registered"))

\* C4: a hover whose point index is out of range for the resolved subset
\* returns visibility false with no content, and raises nothing.
C4_OutOfRangeHidden ==
    (Ready /\ HoveredPoint /\ hoverData.v.pointNumber >= SubsetLen)
    => (/\ out.status = "returned"
        /\ out.show = FALSE
        /\ out.children = no_update)

\* C5: after every hover or selection event (the hovered point, if any,
\* being one the chart plots) the callback has returned, with visibility
\* true exactly when the event carries a point, and with no update of anchor
\* and content when it carries none.
C5_VisibleIffPoint ==
    (Ready /\ out.status # "idle" /\ (HoveredPoint => Plotted))
    => (/\ out.status = "returned"
        /\ out.show <=> HoveredPoint
        /\ ~HoveredPoint => (out.bbox = no_update /\ out.children = no_update))

\* C6: ungrouped dataset, one structure column, images on, title column
\* set: a hover on point i shows content with an image block and a title
\* block whose text is row i's title.
C6_SingleColumnTooltip ==
    (Ready /\ Len(fig.data) = 1 /\ Len(smiles_col) = 1 /\ opt.show_img
       /\ opt.title_col # None /\ Plotted)
    => (/\ Shown
        /\ \E k \in 1..Len(out.children.v) : IsImg(out.children.v[k])
        /\ \E k \in 1..Len(out.children.v) :
              /\ IsH2(out.children.v[k])
              /\ out.children.v[k].text = df[PlottedRow][opt.title_col])

\* The selection is empty: the Dropdown reports an empty list or no value.
EmptySelection ==
    Len(smiles_col) > 1 /\ (IsNone(value) \/ (value.t = "list" /\ value.v = <<>>))

\* C7: with an empty selection a hover on a plotted point shows content
\* without image block, the other blocks being as for any selection.
C7_EmptySelectionNoImage ==
    (Ready /\ EmptySelection /\ Plotted)
    => (/\ Shown
        /\ \A k \in 1..Len(out.children.v) : ~IsImg(out.children.v[k])
        /\ out.children.v =
              TitleBlocks(df[PlottedRow], hoverData.v.curveNumber)
              \o AxisBlocks(hoverData.v) \o CaptionBlocks(df[PlottedRow]))

\* C8: an encoding that does not decode leaves setup successful, with the
\* image of every other (row, column) pair in the cache.
C8_DecodeFailureSkipped ==
    (pc # "start" /\ Len(fig.data) = 1
       /\ \E p \in 1..Len(df), c \in Range(smiles_col) : ~Decodable(df[p][c]))
    => (/\ pc = "ready"
        /\ \A p \in 1..Len(df), c \in Range(smiles_col) :
              Decodable(df[p][c]) => df_data[p].img[c] # NaN)

\* What a caption of column col with value v is to show.
CaptionOf(col, v) ==
    IF col \in opt.caption_transform THEN Transformed(col, v) ELSE Raw(v)

\* C9: every axis caption and extra caption shows the output of the
\* transform registered under the name of the column it displays, and the
\* raw value when none is registered under that name.
C9_TransformByColumn ==
    (Ready /\ Plotted /\ Shown)
    => LET captions == SelectSeq(out.children.v, IsP)
           row == df[PlottedRow]
           axes == IF opt.show_coords THEN 2 ELSE 0
           extra == IF opt.caption_cols.t = "none" THEN <<>>
                    ELSE opt.caption_cols.v
       IN /\ Len(captions) = axes + Len(extra)
          /\ opt.show_coords =>
                /\ captions[1].text.shown = CaptionOf(fig.xcol, row[fig.xcol])
                /\ captions[2].text.shown = CaptionOf(fig.ycol, row[fig.ycol])
          /\ \A k \in 1..Len(extra) :
                captions[axes + k].text.shown = CaptionOf(extra[k], row[extra[k]])

\* The images rendered from row's own encodings in the chosen columns.
RECURSIVE OwnImages(_, _, _)
OwnImages(row, chosen, k) ==
    IF k > Len(smiles_col) THEN <<>>
    ELSE (IF smiles_col[k] \in Range(chosen)
          THEN <<img_str(MolFromSmiles(row[smiles_col[k]]))>> ELSE <<>>)
         \o OwnImages(row, chosen, k + 1)

\* C10: the image blocks of a shown tooltip are the images rendered from the
\* hovered row's own encodings in the configured, active columns.
C10_ImageOfOwnEncoding ==
    (Ready /\ Plotted /\ Shown /\ opt.show_img)
    => LET imgs == SelectSeq(out.children.v, IsImg)
       IN [k \in 1..Len(imgs) |-> imgs[k].text]
            = OwnImages(df[PlottedRow], chosen_smiles(value).v, 1)

====
